---- MODULE Spec2Model ----
(***************************************************************************)
(* Model of ino's `build' command (ino/commands/build.py): the scan of one *)
(* directory's make-generated dependency file (_scan_dependencies), the    *)
(* fixed-point loop over the used libraries (scan_dependencies) and the    *)
(* hand-over to the final build (run).                                     *)
(*                                                                         *)
(* A path and a line of text are sequences of characters; a character is a *)
(* one-element string ("examples" and "dependencies.d" stand for one path  *)
(* component each).  A report is a sequence of lines.                      *)
(***************************************************************************)
EXTENDS Integers, Sequences, FiniteSets, TLC

VARIABLES pc, files, includes, used_libs, scanned_libs, batch, passes,
          deps, extra_libs, cflags, scanCount, scanResult, toolFailed,
          plan, scanSeq, failedDirs, run, first

vars == <<pc, files, includes, used_libs, scanned_libs, batch, passes,
          deps, extra_libs, cflags, scanCount, scanResult, toolFailed,
          plan, scanSeq, failedDirs, run, first>>

(***************************************************************************)
(* Bounds of the model.                                                    *)
(***************************************************************************)
\* number of library directories that exist under the two collections
MaxLibs == 2
\* number of (directory, used library) pairs of the project: how many
\* library roots the sources of all directories together include
MaxEdges == 3
\* lines per report and header paths per line of the reports handed to the
\* parser in ScanSpec
MaxLines == 2
MaxTokens == 2
\* directories per list handed to recursive_inc_lib_flags in FlagsSpec
MaxRoots == 3

(***************************************************************************)
(* Paths.                                                                  *)
(***************************************************************************)
sep == "/"
Whitespace == {" "}

src_dir == <<"s">>
lib_dir == <<"l">>
arduino_libraries_dir == <<"d">>
build_dir == <<"b">>
arduino_core_dir == <<"c">>

join(a, b) == a \o <<sep>> \o b

RECURSIVE LastSep(_, _)
LastSep(path, i) ==
    IF i = 0 THEN 0
    ELSE IF path[i] = sep THEN i ELSE LastSep(path, i - 1)

basename(path) == SubSeq(path, LastSep(path, Len(path)) + 1, Len(path))

\* the file system the build runs on: the library directories under the two
\* collections, in the order the listing yields them
LibUniverse ==
    << join(lib_dir, <<"A">>), join(arduino_libraries_dir, <<"A">>),
       join(lib_dir, <<"B">>), join(arduino_libraries_dir, <<"B">>),
       join(lib_dir, <<"C">>), join(arduino_libraries_dir, <<"C">>) >>

ExistingLibs == SubSeq(LibUniverse, 1, MaxLibs)

\* a library of an earlier build that was deleted since; only leftover
\* reports still name it
GhostLib == join(lib_dir, <<"G">>)

Range(s) == {s[i] : i \in 1..Len(s)}

Candidates == Range(ExistingLibs)
AllRoots == Candidates \cup {GhostLib}
ExistingDirs == {src_dir} \cup Candidates
AllDirs == {src_dir} \cup AllRoots

\* names of the subdirectories of a directory: every library has a `u'
\* (utility) and an `examples' subdirectory; u has a subdirectory `v' and
\* an `examples' subdirectory of its own; every examples directory has one
\* child
ChildNames(d) ==
    IF d \in Candidates THEN <<"u", "examples">>
    ELSE IF d # <<>> /\ d[Len(d)] = "u" THEN <<"v", "examples">>
    ELSE IF d # <<>> /\ d[Len(d)] = "examples" THEN <<"e">>
    ELSE <<>>

RECURSIVE Flatten(_)
Flatten(ss) == IF ss = <<>> THEN <<>> ELSE Head(ss) \o Flatten(Tail(ss))

RECURSIVE list_subdirs_rec(_, _, _)
list_subdirs_rec(d, exclude, recursive) ==
    LET names == SelectSeq(ChildNames(d), LAMBDA n : n \notin exclude)
    IN  IF names = <<>> THEN <<>>
        ELSE [i \in 1..Len(names) |-> join(d, <<names[i]>>)] \o
             IF recursive
                THEN Flatten([i \in 1..Len(names) |->
                        list_subdirs_rec(join(d, <<names[i]>>), exclude, TRUE)])
                ELSE <<>>

\* list_subdirs(dirname, recursive, exclude) of ino.utils
list_subdirs(d, recursive, exclude) ==
    IF d = lib_dir
       THEN SelectSeq(ExistingLibs, LAMBDA r : SubSeq(r, 1, Len(lib_dir)) = lib_dir)
    ELSE IF d = arduino_libraries_dir
       THEN SelectSeq(ExistingLibs,
                      LAMBDA r : SubSeq(r, 1, Len(arduino_libraries_dir))
                                   = arduino_libraries_dir)
    ELSE list_subdirs_rec(d, exclude, recursive)

\* the directories FlagsSpec hands to recursive_inc_lib_flags: the
\* libraries, a subdirectory of one of them and a subdirectory of that
FlagRoots ==
    Candidates \cup {join(ExistingLibs[1], <<"u">>),
                     join(join(ExistingLibs[1], <<"u">>), <<"v">>)}

\* list_subdirs(d, recursive=True, exclude=['examples']) for every directory
\* recursive_inc_lib_flags is handed
Subdirs ==
    [d \in AllRoots \cup FlagRoots |-> list_subdirs(d, TRUE, {"examples"})]

\* the flag of the directory itself left out
recursive_inc_lib_flags_subdirs_only(libdirs) ==
    Flatten([i \in 1..Len(libdirs) |->
        LET subs == Subdirs[libdirs[i]]
        IN  [j \in 1..Len(subs) |-> <<"-I">> \o subs[j]]])

\* flags.append('-I' + d); flags.extend('-I' + subd for subd in ...)
recursive_inc_lib_flags(libdirs) ==
    Flatten([i \in 1..Len(libdirs) |->
        << <<"-I">> \o libdirs[i] >> \o
        LET subs == Subdirs[libdirs[i]]
        IN  [j \in 1..Len(subs) |-> <<"-I">> \o subs[j]]])

lib_dirs == list_subdirs(lib_dir, FALSE, {}) \o
            list_subdirs(arduino_libraries_dir, FALSE, {})


(***************************************************************************)
(* _scan_dependencies: the regular expression and the parse of a report.   *)
(***************************************************************************)
StartsWithAt(line, p, pat) ==
    /\ p + Len(pat) - 1 <= Len(line)
    /\ \A i \in 1..Len(pat) : line[p + i - 1] = pat[i]

\* index of the first separator of line at or after position q (0 if none)
RECURSIVE NextSep(_, _)
NextSep(line, q) ==
    IF q > Len(line) THEN 0
    ELSE IF line[q] = sep THEN q ELSE NextSep(line, q + 1)

\* \s+(?P<libdir>{dirname}{slash}([^{slash}])+){slash} matches with the
\* group starting at position p
MatchAt(dirname, line, p) ==
    /\ p >= 2
    /\ line[p - 1] \in Whitespace
    /\ StartsWithAt(line, p, dirname \o <<sep>>)
    /\ NextSep(line, p + Len(dirname) + 1) > p + Len(dirname) + 1

\* re_compile(dirname).search(line): the libdir group of the leftmost
\* match, as a set of at most one element
re_search(dirname, line) ==
    LET ps == {p \in 1..Len(line) : MatchAt(dirname, line, p)}
    IN  IF ps = {} THEN {}
        ELSE LET p == CHOOSE m \in ps : \A n \in ps : m <= n
             IN  {SubSeq(line, p, NextSep(line, p + Len(dirname) + 1) - 1)}

\* match = local_re.search(line) or dist_re.search(line)
LineMatch(line) ==
    IF re_search(lib_dir, line) # {}
       THEN re_search(lib_dir, line)
       ELSE re_search(arduino_libraries_dir, line)

\* the loop over the lines of the opened report
ParseReport(report) == UNION {LineMatch(report[i]) : i \in 1..Len(report)}

output_filepath(dir) ==
    join(join(build_dir, basename(dir)), <<"dependencies.d">>)

ReportPaths == {output_filepath(d) : d \in AllDirs}

Absent == [exists |-> FALSE, content |-> <<>>]
File(report) == [exists |-> TRUE, content |-> report]

(***************************************************************************)
(* The external dependency-generation step (make -f Makefile.deps all).    *)
(***************************************************************************)
HeaderLine(root) == <<" ">> \o join(root, <<"x">>)

\* the report make writes for a set of used library roots when it succeeds:
\* one header of each root, one per line
Render(roots) ==
    LET rs == SelectSeq(LibUniverse \o <<GhostLib>>, LAMBDA r : r \in roots)
    IN  [i \in 1..Len(rs) |-> HeaderLine(rs[i])]

TrueReport(dir) == IF dir \in ExistingDirs THEN Render(includes[dir]) ELSE <<>>

\* how a make run can end: it succeeds, it fails and leaves the report file
\* as it was, or it fails and leaves the first k lines of the report
ToolModes ==
    {<<"ok", 0>>, <<"keep", 0>>} \cup {<<"cut", k>> : k \in 0..MaxEdges}

\* outcomes of subprocess.call(['make', ...]) for dir on build directory f:
\* the report file afterwards and whether make failed; plan[dir] holds the
\* ways make can end for dir
MakeDeps(dir, f) ==
    LET path == output_filepath(dir)
        full == TrueReport(dir)
        all  ==
            {[file |-> File(full), failed |-> FALSE, mode |-> <<"ok", 0>>] :
                x \in IF dir \in ExistingDirs THEN {1} ELSE {}}
            \cup {[file |-> f[path], failed |-> TRUE, mode |-> <<"keep", 0>>]}
            \cup {[file |-> File(SubSeq(full, 1, k)), failed |-> TRUE,
                   mode |-> <<"cut", k>>] :
                    k \in 0..(IF Len(full) = 0 THEN 0 ELSE Len(full) - 1)}
    IN  {m \in all : m.mode \in plan[dir]}

\* a failed make stops the scan as well
ScanProceedsIfMakeOk(m) == m.file.exists /\ ~m.failed

\* a report that cannot be opened read as an empty one
ScanProceedsAlways(m) == TRUE

\* the return value of subprocess.call is dropped; open(output_filepath)
\* raises if the file is not there
ScanProceeds(m) == m.file.exists

\* outcomes of one call _scan_dependencies(dir, lib_dirs, inc_flags): the
\* build directory afterwards, whether open() succeeded, and the returned set
_scan_dependencies(dir, f) ==
    {[files  |-> [f EXCEPT ![output_filepath(dir)] = m.file],
      failed |-> m.failed,
      ok     |-> ScanProceeds(m),
      libs   |-> ParseReport(m.file.content)] :
        m \in MakeDeps(dir, f)}


(***************************************************************************)
(* scan_dependencies and run, as steps.                                    *)
(***************************************************************************)
\* all orders in which list(S) can yield the members of the set S
Orders(S) ==
    {o \in [1..Cardinality(S) -> S] :
        \A i, j \in 1..Cardinality(S) : i # j => o[i] # o[j]}

\* the batch taken from all used libraries, scanned or not
UnscannedAll(used, scanned) == used

\* used_libs - scanned_libs
Unscanned(used, scanned) == used \ scanned

\* the result of a scan dropped
MergeDrop(used, found) == used

\* the result of a scan assigned instead of merged
MergeReplace(used, found) == found

\* used_libs |= ...
Merge(used, found) == used \cup found

\* the scanned library not remembered
MarkScannedNever(scanned, lib) == scanned

\* scanned_libs.add(lib_dir)
MarkScanned(scanned, lib) == scanned \cup {lib}

\* the loop condition inverted
LoopDoneInverted(scanned, used) == scanned # used

\* not (scanned_libs != used_libs)
LoopDone(scanned, used) == scanned = used

\* position of x in the sequence s (0 if x is not in s)
IndexOf(s, x) ==
    IF \E i \in 1..Len(s) : s[i] = x
       THEN CHOOSE i \in 1..Len(s) : s[i] = x
       ELSE 0

\* list() of a set of the same strings yields them in the same order in
\* every run of the interpreter: o keeps the order of the members of seen
SameOrderAs(o, seen) ==
    \A i, j \in 1..Len(o) :
        (i < j /\ IndexOf(seen, o[i]) > 0 /\ IndexOf(seen, o[j]) > 0)
            => IndexOf(seen, o[i]) < IndexOf(seen, o[j])

\* the flags of every candidate library appended
ExtendFlagsAll(flags, libs) == flags \o recursive_inc_lib_flags(lib_dirs)

\* self.e['cflags'].extend(self.recursive_inc_lib_flags(used_libs))
ExtendFlags(flags, libs) == flags \o recursive_inc_lib_flags(libs)

\* more passes than there are directories cannot happen; the cap keeps the
\* counter finite
PassCap == Cardinality(AllDirs) + 1

Bump(n) == IF n < 2 THEN n + 1 ELSE n

\* the flags setup_flags leaves in e['cflags'] (only the include flag is kept)
BaseFlags == << <<"-I">> \o arduino_core_dir >>

\* the build directory an earlier build of the project left behind
StaleFiles ==
    [p \in ReportPaths |->
        IF p = output_filepath(GhostLib)
           THEN File(Render({ExistingLibs[1]}))
           ELSE File(Render({GhostLib}))]

CleanFiles == [p \in ReportPaths |-> Absent]

RECURSIVE SumOver(_, _)
SumOver(f, S) ==
    IF S = {} THEN 0
    ELSE LET x == CHOOSE y \in S : TRUE
         IN  Cardinality(f[x]) + SumOver(f, S \ {x})

\* what the sources of each existing directory include, as library roots
Projects ==
    {inc \in [ExistingDirs -> SUBSET Candidates] :
        SumOver(inc, ExistingDirs) <= MaxEdges}

\* before a first run has finished there is no earlier result
NoFirst == [libs |-> {}, order |-> <<>>]

\* make may end in any way, at every call
AnyPlan == [d \in AllDirs |-> ToolModes]

Init ==
    /\ pc = "start"
    /\ includes \in Projects
    /\ files \in {CleanFiles, StaleFiles}
    /\ plan = AnyPlan
    /\ used_libs = {}
    /\ scanned_libs = {}
    /\ batch = <<>>
    /\ passes = 0
    /\ deps = <<>>
    /\ extra_libs = <<>>
    /\ cflags = BaseFlags
    /\ scanCount = [d \in AllDirs |-> 0]
    /\ scanResult = [d \in AllDirs |-> {}]
    /\ toolFailed = FALSE
    /\ scanSeq = <<>>
    /\ failedDirs = {}
    /\ run = 1
    /\ first = NoFirst

\* scan_dependencies up to the while loop: the scan of the source directory
Begin ==
    /\ pc = "start"
    /\ \E o \in _scan_dependencies(src_dir, files) :
          /\ files' = o.files
          /\ deps' = Append(<<>>, output_filepath(src_dir))
          /\ toolFailed' = (toolFailed \/ o.failed)
          /\ failedDirs' = IF o.failed THEN failedDirs \cup {src_dir}
                                       ELSE failedDirs
          /\ scanSeq' = Append(<<>>, src_dir)
          /\ scanCount' = [scanCount EXCEPT ![src_dir] = Bump(@)]
          /\ IF o.ok
                THEN /\ used_libs' = o.libs
                     /\ scanResult' = [scanResult EXCEPT ![src_dir] = o.libs]
                     /\ pc' = "while"
                ELSE /\ UNCHANGED <<used_libs, scanResult>>
                     /\ pc' = "aborted"
    /\ scanned_libs' = {}
    /\ UNCHANGED <<includes, batch, passes, extra_libs, cflags, plan, run, first>>

\* while scanned_libs != used_libs: ... for lib_dir in list(used_libs - scanned_libs)
WhileTest ==
    /\ pc = "while"
    /\ IF LoopDone(scanned_libs, used_libs)
          THEN /\ pc' = "record"
               /\ UNCHANGED <<batch, passes>>
          ELSE /\ passes < PassCap
               /\ \E o \in Orders(Unscanned(used_libs, scanned_libs)) :
                     /\ SameOrderAs(o, first.order)
                     /\ batch' = o
               /\ passes' = passes + 1
               /\ pc' = "for"
    /\ UNCHANGED <<files, includes, used_libs, scanned_libs, deps, extra_libs,
                   cflags, scanCount, scanResult, toolFailed, plan, scanSeq,
                   failedDirs, run, first>>

\* one iteration of the for loop; an exhausted list returns to the while test
ForBody ==
    /\ pc = "for"
    /\ IF batch = <<>>
          THEN /\ pc' = "while"
               /\ UNCHANGED <<files, used_libs, scanned_libs, batch, deps,
                              scanCount, scanResult, toolFailed, scanSeq,
                              failedDirs>>
          ELSE LET lib == Head(batch) IN
               \E o \in _scan_dependencies(lib, files) :
                  /\ files' = o.files
                  /\ deps' = Append(deps, output_filepath(lib))
                  /\ toolFailed' = (toolFailed \/ o.failed)
                  /\ failedDirs' = IF o.failed THEN failedDirs \cup {lib}
                                               ELSE failedDirs
                  /\ scanSeq' = Append(scanSeq, lib)
                  /\ scanCount' = [scanCount EXCEPT ![lib] = Bump(@)]
                  /\ IF o.ok
                        THEN /\ used_libs' = Merge(used_libs, o.libs)
                             /\ scanned_libs' = MarkScanned(scanned_libs, lib)
                             /\ scanResult' = [scanResult EXCEPT ![lib] = o.libs]
                             /\ batch' = Tail(batch)
                             /\ pc' = "for"
                        ELSE /\ UNCHANGED <<used_libs, scanned_libs, scanResult,
                                            batch>>
                             /\ pc' = "aborted"
    /\ UNCHANGED <<includes, passes, extra_libs, cflags, plan, run, first>>

\* self.e['extra_libs'] = list(used_libs); self.e['cflags'].extend(...)
Record ==
    /\ pc = "record"
    /\ \E o \in Orders(used_libs) :
          /\ extra_libs' = o
          /\ cflags' = ExtendFlags(cflags, o)
    /\ pc' = "build"
    /\ UNCHANGED <<files, includes, used_libs, scanned_libs, batch, passes, deps,
                   scanCount, scanResult, toolFailed, plan, scanSeq, failedDirs,
                   run, first>>

\* self.build(): the final make
Build ==
    /\ pc = "build"
    /\ pc' = "done"
    /\ UNCHANGED <<files, includes, used_libs, scanned_libs, batch, passes, deps,
                   extra_libs, cflags, scanCount, scanResult, toolFailed, plan,
                   scanSeq, failedDirs, run, first>>

Next == Begin \/ WhileTest \/ ForBody \/ Record \/ Build

Spec == Init /\ [][Next]_vars

\* The fair specification: run steps through discover, setup_flags,
\* create_jinja, scan_dependencies and build without stopping in between
\* (single-threaded, synchronous execution), so every enabled step is
\* eventually taken.  It starts from the projects with one include fewer
\* than Spec, which keeps TLC's liveness analysis small.
LiveInit == Init /\ SumOver(includes, ExistingDirs) < MaxEdges

LiveSpec == LiveInit /\ [][Next]_vars /\ WF_vars(Next)


(***************************************************************************)
(* The command run twice in a row: the sources, the libraries and the way  *)
(* make ends for each directory are the same in both runs, and the build   *)
(* directory is what the first run left.                                   *)
(***************************************************************************)
\* make ends the same way at every call for the same directory (it cannot
\* succeed for a directory that does not exist)
FixedPlans ==
    {p \in [AllDirs -> {{<<"ok", 0>>}, {<<"keep", 0>>}, {<<"cut", 0>>}}] :
        \A d \in AllDirs \ ExistingDirs : p[d] # {<<"ok", 0>>}}

TwiceInit ==
    /\ pc = "start"
    /\ includes \in Projects
    /\ files \in {CleanFiles, StaleFiles}
    /\ plan \in FixedPlans
    /\ used_libs = {}
    /\ scanned_libs = {}
    /\ batch = <<>>
    /\ passes = 0
    /\ deps = <<>>
    /\ extra_libs = <<>>
    /\ cflags = BaseFlags
    /\ scanCount = [d \in AllDirs |-> 0]
    /\ scanResult = [d \in AllDirs |-> {}]
    /\ toolFailed = FALSE
    /\ scanSeq = <<>>
    /\ failedDirs = {}
    /\ run = 1
    /\ first = NoFirst

\* the command invoked a second time after the first run has finished: a
\* new process (run builds cflags anew, scan_dependencies its sets) on the
\* build directory of the first
RunAgain ==
    /\ pc = "done"
    /\ run = 1
    /\ run' = 2
    /\ first' = [libs |-> used_libs, order |-> scanSeq]
    /\ pc' = "start"
    /\ used_libs' = {}
    /\ scanned_libs' = {}
    /\ batch' = <<>>
    /\ passes' = 0
    /\ deps' = <<>>
    /\ extra_libs' = <<>>
    /\ cflags' = BaseFlags
    /\ scanCount' = [d \in AllDirs |-> 0]
    /\ scanResult' = [d \in AllDirs |-> {}]
    /\ toolFailed' = FALSE
    /\ scanSeq' = <<>>
    /\ failedDirs' = {}
    /\ UNCHANGED <<files, includes, plan>>

TwiceNext == Begin \/ WhileTest \/ ForBody \/ Record \/ Build \/ RunAgain

TwiceSpec == TwiceInit /\ [][TwiceNext]_vars

\* the run on a build directory that holds no report yet
CleanInit == Init /\ files = CleanFiles

CleanSpec == CleanInit /\ [][Next]_vars

(***************************************************************************)
(* recursive_inc_lib_flags on its own: FlagsSpec hands it every list of up *)
(* to MaxRoots directories, a directory twice and a directory inside       *)
(* another one included.                                                   *)
(***************************************************************************)
FlagsInit ==
    /\ pc = "flags"
    /\ extra_libs \in UNION {[1..n -> FlagRoots] : n \in 0..MaxRoots}
    /\ cflags = <<>>
    /\ includes = [d \in ExistingDirs |-> {}]
    /\ files = CleanFiles
    /\ plan = AnyPlan
    /\ used_libs = {}
    /\ scanned_libs = {}
    /\ batch = <<>>
    /\ passes = 0
    /\ deps = <<>>
    /\ scanCount = [d \in AllDirs |-> 0]
    /\ scanResult = [d \in AllDirs |-> {}]
    /\ toolFailed = FALSE
    /\ scanSeq = <<>>
    /\ failedDirs = {}
    /\ run = 1
    /\ first = NoFirst

\* flags = self.recursive_inc_lib_flags(libdirs)
FlagsStep ==
    /\ pc = "flags"
    /\ cflags' = recursive_inc_lib_flags(extra_libs)
    /\ pc' = "flagged"
    /\ UNCHANGED <<files, includes, used_libs, scanned_libs, batch, passes, deps,
                   extra_libs, scanCount, scanResult, toolFailed, plan, scanSeq,
                   failedDirs, run, first>>

FlagsNext == FlagsStep

FlagsSpec == FlagsInit /\ [][FlagsNext]_vars

(***************************************************************************)
(* The parse of one report on its own: ScanSpec hands every report of up   *)
(* to MaxLines lines of up to MaxTokens paths to the parse of lines        *)
(* 143-150.                                                                *)
(***************************************************************************)
Foo == join(lib_dir, <<"F">>)
FooBar == join(lib_dir, <<"F", "B">>)
DistFoo == join(arduino_libraries_dir, <<"F">>)
SiblingFoo == join(<<"l", "b">>, <<"F">>)

\* header paths a report line can name: two headers of Foo, one of FooBar,
\* one of the standard Foo, one under a directory whose name starts like the
\* local collection, and a file directly in the local collection
HeaderPaths ==
    { join(Foo, <<"x">>), join(Foo, <<"y">>), join(FooBar, <<"x">>),
      join(DistFoo, <<"x">>), join(SiblingFoo, <<"x">>), join(lib_dir, <<"x">>) }

ReportLines ==
    UNION {{Flatten([i \in 1..k |-> <<" ">> \o ts[i]]) : ts \in [1..k -> HeaderPaths]} :
            k \in 1..MaxTokens}

Reports == UNION {[1..n -> ReportLines] : n \in 0..MaxLines}

ScanInit ==
    /\ pc = "parse"
    /\ \E r \in Reports :
          files = [CleanFiles EXCEPT ![output_filepath(src_dir)] = File(r)]
    /\ includes = [d \in ExistingDirs |-> {}]
    /\ plan = AnyPlan
    /\ used_libs = {}
    /\ scanned_libs = {}
    /\ batch = <<>>
    /\ passes = 0
    /\ deps = <<>>
    /\ extra_libs = <<>>
    /\ cflags = BaseFlags
    /\ scanCount = [d \in AllDirs |-> 0]
    /\ scanResult = [d \in AllDirs |-> {}]
    /\ toolFailed = FALSE
    /\ scanSeq = <<>>
    /\ failedDirs = {}
    /\ run = 1
    /\ first = NoFirst

\* with open(output_filepath) as f: for line in f: ... return used_libs
ParseStep ==
    /\ pc = "parse"
    /\ used_libs' = ParseReport(files[output_filepath(src_dir)].content)
    /\ pc' = "parsed"
    /\ UNCHANGED <<files, includes, scanned_libs, batch, passes, deps,
                   extra_libs, cflags, scanCount, scanResult, toolFailed, plan,
                   scanSeq, failedDirs, run, first>>

ScanNext == ParseStep

ScanSpec == ScanInit /\ [][ScanNext]_vars

(***************************************************************************)
(* Notions the properties are stated with.                                 *)
(***************************************************************************)
\* least set containing S and closed under rel
RECURSIVE Closure(_, _)
Closure(rel, S) ==
    LET T == S \cup UNION {rel[x] : x \in S}
    IN  IF T = S THEN S ELSE Closure(rel, T)

\* the paths of a line: its maximal runs of non-whitespace characters
PathsOf(line) ==
    {SubSeq(line, a, b) : <<a, b>> \in
        {ab \in (1..Len(line)) \X (1..Len(line)) :
            /\ ab[1] <= ab[2]
            /\ \A i \in ab[1]..ab[2] : line[i] \notin Whitespace
            /\ (ab[1] = 1 \/ line[ab[1] - 1] \in Whitespace)
            /\ (ab[2] = Len(line) \/ line[ab[2] + 1] \in Whitespace)}}

\* the library roots (direct children of a collection) a path lies under
RootsOfPath(path) ==
    {SubSeq(path, 1, n - 1) : n \in
        {m \in 1..Len(path) :
            \E coll \in {lib_dir, arduino_libraries_dir} :
                /\ StartsWithAt(path, 1, coll \o <<sep>>)
                /\ m > Len(coll) + 2
                /\ m = NextSep(path, Len(coll) + 2)}}

NamedRoots(report) ==
    UNION {UNION {RootsOfPath(t) : t \in PathsOf(report[i])} : i \in 1..Len(report)}

ParsedReport == files[output_filepath(src_dir)].content

Resolved == pc \in {"build", "done"}


(***************************************************************************)
(* Properties.                                                             *)
(***************************************************************************)

\* C1: scan_dependencies terminates, whatever the scans report (a library
\* naming itself, libraries naming each other): under LiveSpec every run
\* leaves the loop with scanned_libs = used_libs and the result recorded,
\* unless a scan raised because its report could not be opened.
C1_Terminates ==
    <>(\/ pc = "aborted"
       \/ /\ Resolved
          /\ scanned_libs = used_libs
          /\ Range(extra_libs) = used_libs)

\* a finished resolve over two libraries whose scans named each other
C1_CycleResolved ==
    /\ pc = "done"
    /\ \E a, b \in used_libs : a # b /\ a \in scanResult[b] /\ b \in scanResult[a]

\* C2: the recorded extra_libs is exactly the transitive closure of what the
\* scans returned, starting from the scan of the source directory: a library
\* is recorded iff the scan of src_dir or of a recorded library returned it,
\* and every recorded library was scanned.
C2_TransitiveClosure ==
    Resolved =>
        /\ Range(extra_libs) = Closure(scanResult, scanResult[src_dir])
        /\ Range(extra_libs) =
              scanResult[src_dir] \cup UNION {scanResult[l] : l \in Range(extra_libs)}
        /\ \A l \in Range(extra_libs) : scanCount[l] >= 1

\* a finished resolve with a library only the scan of another library named
C2_IndirectResolved ==
    /\ pc = "done"
    /\ \E l \in Range(extra_libs) : l \notin scanResult[src_dir]

\* C3: no directory is passed to _scan_dependencies more than once during a
\* resolve, and every library of the recorded set was scanned exactly once.
C3_ScannedAtMostOnce ==
    /\ \A d \in AllDirs : scanCount[d] <= 1
    /\ Resolved => \A l \in Range(extra_libs) : scanCount[l] = 1

\* a finished resolve in which a later scan named an already scanned library
C3_FoundAgain ==
    /\ pc = "done"
    /\ passes >= 2
    /\ \E a, b \in used_libs : a # b /\ a \in scanResult[b] /\ b \in scanResult[a]

\* C4: used_libs stays within lib_dirs and no directory outside lib_dirs
\* (other than src_dir) is ever scanned.
C4_SubsetOfCandidates ==
    /\ used_libs \subseteq Range(lib_dirs)
    /\ \A d \in AllDirs \ ({src_dir} \cup Range(lib_dirs)) : scanCount[d] = 0

\* C5: the parse of a report returns exactly the library roots some header
\* path of the report lies under, for every line and every path of a line.
C5_AllNamedRoots ==
    pc = "parsed" => used_libs = NamedRoots(ParsedReport)

\* C6: matching is boundary-aware: Foo is returned only if a path lies under
\* Foo itself (a path under FooBar does not count), Foo is returned whenever
\* a path lies under Foo, and nothing is returned for a path under a
\* directory whose name merely starts with a collection's name.
C6_BoundaryAware ==
    pc = "parsed" =>
        /\ Foo \in used_libs => Foo \in NamedRoots(ParsedReport)
        /\ Foo \in NamedRoots(ParsedReport) => Foo \in used_libs
        /\ SiblingFoo \notin used_libs

\* C7: for a fixed scan relation (every make run succeeds, so each scan
\* returns the parse of its own directory's report) every order of
\* processing every batch ends with the same used_libs: the closure of that
\* relation.
ScanOf == [d \in AllDirs |-> ParseReport(TrueReport(d))]

C7_OrderIndependent ==
    (Resolved /\ ~toolFailed) =>
        used_libs = Closure(ScanOf, ScanOf[src_dir])

\* a finished resolve without tool failure whose single batch held two libraries
C7_TwoInBatch ==
    /\ pc = "done"
    /\ ~toolFailed
    /\ passes = 1
    /\ Cardinality(used_libs) >= 2

\* C8: no step removes a member from used_libs, and scanned_libs is a subset
\* of used_libs in every reachable state.
C8_UsedMonotone ==
    /\ [](scanned_libs \subseteq used_libs)
    /\ [][used_libs \subseteq used_libs']_vars

\* a state of the loop in which the scan of a library has enlarged used_libs
C8_GrownInLoop ==
    /\ pc = "for"
    /\ scanned_libs # {}
    /\ used_libs # scanResult[src_dir]

\* C9: the number of passes of the while loop never exceeds the number of
\* candidate library directories.
C9_PassBound == passes <= Len(lib_dirs)

\* C10: whenever the final build has run, the recorded set contains every
\* library the project transitively includes, also after a failed make left
\* an empty, partial or stale report.
C10_BuildComplete ==
    pc = "done" => Closure(includes, includes[src_dir]) \subseteq Range(extra_libs)


\* the directory of the most recent scan and the report file at its path
LastScanned == scanSeq[Len(scanSeq)]
LastReport == files[output_filepath(LastScanned)]

\* C11: if the report of a directory cannot be opened after its make run,
\* the run stops at that scan: extra_libs is not recorded, cflags is not
\* extended, and no step (no further scan, no build) follows.
C11_UnreadableAborts ==
    /\ []((scanSeq # <<>> /\ ~LastReport.exists) =>
            (pc = "aborted" /\ extra_libs = <<>> /\ cflags = BaseFlags))
    /\ [][pc # "aborted"]_vars

\* a run stopped at the scan of a library
C11_AbortedAtLibrary ==
    /\ pc = "aborted"
    /\ Len(scanSeq) >= 2
    /\ ~LastReport.exists

\* C12: a failed make is not fatal: the scan still parses the report file
\* at the directory's report path, its result is what that content matches,
\* and the resolution goes on with the loop.
C12_FailedMakeNotFatal ==
    [][(/\ scanSeq' # scanSeq
        /\ scanSeq' # <<>>
        /\ LastScanned' \in failedDirs'
        /\ LastReport'.exists)
       => (/\ pc' \in {"while", "for"}
           /\ scanResult'[LastScanned'] = ParseReport(LastReport'.content)
           /\ scanResult'[LastScanned'] \subseteq used_libs'
           /\ LastScanned' # src_dir =>
                 (batch' = Tail(batch) /\ LastScanned' \in scanned_libs'))]_vars

\* a finished resolve in which a library whose make failed was scanned and
\* its leftover report named a library
C12_FailedScanUsed ==
    /\ pc = "done"
    /\ \E d \in failedDirs \cap used_libs : scanResult[d] # {}

\* C14: once resolved, and before the build is invoked, extra_libs holds
\* each resolved library exactly once and nothing else, and cflags is its
\* value before the resolution followed by the include flags of the
\* resolved libraries only; until then cflags is untouched.
C14_PlanHoldsClosure ==
    /\ Resolved =>
          /\ Range(extra_libs) = used_libs
          /\ Len(extra_libs) = Cardinality(used_libs)
          /\ \A l \in Range(extra_libs) : l \in scanned_libs
          /\ cflags = BaseFlags \o recursive_inc_lib_flags(extra_libs)
    /\ pc \in {"start", "while", "for", "record"} => cflags = BaseFlags

\* the build about to be invoked with a resolved library among several
\* candidates
C14_ReadyToBuild ==
    /\ pc = "build"
    /\ extra_libs # <<>>
    /\ Range(extra_libs) # Range(lib_dirs)

\* C15: if the scan of src_dir matches no library root, that is the only
\* scan: the loop body never runs, extra_libs is empty, cflags is left as
\* it was, and the build still runs.
C15_NoDependencies ==
    (pc \in {"while", "for", "record", "build", "done"} /\ scanResult[src_dir] = {})
        => /\ used_libs = {}
           /\ passes = 0
           /\ pc # "for"
           /\ scanSeq = <<src_dir>>
           /\ deps = <<output_filepath(src_dir)>>
           /\ extra_libs = <<>>
           /\ cflags = BaseFlags
           /\ pc # "done" => ENABLED Next

\* the build has run for a project without dependencies
C15_BuiltWithoutLibs ==
    /\ pc = "done"
    /\ scanResult[src_dir] = {}
    /\ scanCount[src_dir] = 1

\* C13: the command run twice in a row, with the same sources, libraries
\* and make behaviour, resolves the same set both times.
C13_SameTwice ==
    (run = 2 /\ Resolved) => used_libs = first.libs


\* no element occurs twice in the sequence
NoDuplicates(q) == \A i, j \in 1..Len(q) : i # j => q[i] # q[j]

\* C16: the flag sequence recursive_inc_lib_flags returns never holds the
\* same flag twice, also for a root listed twice or a root inside another.
C16_NoFlagTwice ==
    pc = "flagged" => NoDuplicates(cflags)

\* every directory of the tree below the library directories
RECURSIVE TreeBelow(_)
TreeBelow(ds) ==
    LET more == ds \cup UNION {{join(d, <<ChildNames(d)[i]>>) :
                                   i \in 1..Len(ChildNames(d))} : d \in ds}
    IN  IF more = ds THEN ds ELSE TreeBelow(more)

\* the directories nested in root at any depth that are not named
\* `examples' and do not lie beneath a directory named `examples'
Eligible(root) ==
    {d \in TreeBelow(Candidates) :
        /\ Len(d) > Len(root)
        /\ StartsWithAt(d, 1, root \o <<sep>>)
        /\ \A i \in (Len(root) + 1)..Len(d) : d[i] # "examples"}

\* flags is, root by root, the flag of the root followed by one flag for
\* each eligible directory nested in it
RECURSIVE FlagsAsClaimed(_, _)
FlagsAsClaimed(flags, roots) ==
    IF roots = <<>> THEN flags = <<>>
    ELSE LET n == 1 + Cardinality(Eligible(Head(roots)))
         IN  /\ Len(flags) >= n
             /\ flags[1] = <<"-I">> \o Head(roots)
             /\ {flags[i] : i \in 2..n} =
                   {<<"-I">> \o d : d \in Eligible(Head(roots))}
             /\ FlagsAsClaimed(SubSeq(flags, n + 1, Len(flags)), Tail(roots))

\* C17: recursive_inc_lib_flags emits, for every root, the flag of the root
\* and then one flag for each nested subdirectory at any depth, except the
\* directories named `examples' and everything beneath them; no roots, no
\* flags.
C17_FlagsPerRoot ==
    pc = "flagged" => FlagsAsClaimed(cflags, extra_libs)

\* the flags of a library with nested subdirectories and nested examples
C17_NestedFlagged ==
    /\ pc = "flagged"
    /\ extra_libs # <<>>
    /\ extra_libs[1] \in Candidates
    /\ Len(cflags) > Len(extra_libs)

\* the reports make can leave for dir: its report or the first lines of it
ReportsFor(dir) ==
    {SubSeq(TrueReport(dir), 1, k) : k \in 0..Len(TrueReport(dir))}

\* C18: every scan parses the report its own make run produced for its own
\* directory, never one written for another directory, also when two
\* directories share a base name and the make run leaves the file alone.
C18_OwnReport ==
    \A d \in AllDirs :
        scanCount[d] >= 1 =>
            scanResult[d] \in {ParseReport(r) : r \in ReportsFor(d)}

\* C19: once resolved, deps holds one report path per scan in scan order:
\* the report of src_dir first, then one per resolved library, 1 + the
\* number of resolved libraries in all, and no path twice; a resolve starts
\* the list anew.
C19_DepsPerScan ==
    /\ Resolved =>
          /\ Len(deps) = 1 + Cardinality(used_libs)
          /\ deps[1] = output_filepath(src_dir)
          /\ Len(scanSeq) = Len(deps)
          /\ \A i \in 1..Len(deps) : deps[i] = output_filepath(scanSeq[i])
          /\ {scanSeq[i] : i \in 2..Len(scanSeq)} = used_libs
          /\ NoDuplicates(deps)
    /\ (pc = "while" /\ passes = 0) => deps = <<output_filepath(src_dir)>>

====
